---- MODULE Spec2Model ----
(***************************************************************************)
(* Model of backend/food_analysis.py: the /analyse request handler         *)
(* (analyse_food), the startup configuration of the Gemini client          *)
(* (gemini_model) and the normalizer extract_json_from_text.               *)
(*                                                                         *)
(* A Python str is a sequence of one-character strings, so that            *)
(* str.startswith, str.replace, str.strip and json.loads are computed      *)
(* character by character, as the interpreter computes them.               *)
(***************************************************************************)
EXTENDS Integers, Sequences, FiniteSets, TLC

(***************************************************************************)
(* Bounds of the model.                                                    *)
(***************************************************************************)
\* number of requests that may be in flight at once
NumRequests == 2
\* largest run of whitespace put around a fenced reply
MaxPad == 1

(***************************************************************************)
(* Python values.                                                          *)
(*   None                  [t |-> "None", v |-> <<>>]                      *)
(*   str                   [t |-> "str",  v |-> <<chars>>]                 *)
(*   bool                  [t |-> "bool", v |-> TRUE/FALSE]                *)
(*   list                  [t |-> "list", v |-> <<values>>]                *)
(*   dict (insertion order)[t |-> "dict", v |-> << <<key, value>>, ...>>]  *)
(***************************************************************************)
None == [t |-> "None", v |-> <<>>]
PyStr(s) == [t |-> "str", v |-> s]
PyBool(b) == [t |-> "bool", v |-> b]
PyList(xs) == [t |-> "list", v |-> xs]
PyDict(kvs) == [t |-> "dict", v |-> kvs]

\* Python truthiness, as used by `not x` (lines 53, 91, 93, 98).
Truthy(x) ==
  CASE x.t = "None" -> FALSE
    [] x.t = "bool" -> x.v
    [] OTHER -> x.v # <<>>

(***************************************************************************)
(* str methods.                                                            *)
(***************************************************************************)
\* str.startswith(prefix)
startswith(s, prefix) ==
  /\ Len(s) >= Len(prefix)
  /\ SubSeq(s, 1, Len(prefix)) = prefix

\* the least element of a non-empty set of integers
Min(S) == CHOOSE x \in S : \A y \in S : x <= y

\* str.find(sub): the positions at which sub occurs in s
Occurrences(s, sub) ==
  {i \in 1..(Len(s) - Len(sub) + 1) : SubSeq(s, i, i + Len(sub) - 1) = sub}

\* str.replace(old, new): every non-overlapping occurrence, left to right:
\* the leftmost occurrence is replaced, and the search goes on after it.
RECURSIVE replace(_, _, _)
replace(s, old, new) ==
  IF Occurrences(s, old) = {} THEN s
  ELSE LET i == Min(Occurrences(s, old)) IN
       SubSeq(s, 1, i - 1) \o new
       \o replace(SubSeq(s, i + Len(old), Len(s)), old, new)

\* The whitespace characters of the model's alphabet; all of them are
\* whitespace both for str.strip and for the JSON grammar.
Whitespace == {" ", "\n", "\t"}

\* str.strip(): from the first to the last character that is no whitespace
strip(s) ==
  LET solid == {i \in 1..Len(s) : s[i] \notin Whitespace} IN
  IF solid = {} THEN <<>>
  ELSE SubSeq(s, Min(solid), CHOOSE x \in solid : \A y \in solid : y <= x)

(***************************************************************************)
(* json.loads: the recursive-descent decoder of the json module, over the  *)
(* alphabet the model's texts are written in.  Numbers, NaN and Infinity   *)
(* need a digit, "-", "N" or "I" at the start of a value ("I" only as      *)
(* "Infinity"); no text of the model has one there except the prose        *)
(* replies, which json.loads rejects at that character as this decoder     *)
(* does.  The escapes \b, \f and \uXXXX are outside the alphabet.          *)
(***************************************************************************)
Fail == [ok |-> FALSE, val |-> None, end |-> 0]
Ok(value, next) == [ok |-> TRUE, val |-> value, end |-> next]

\* characters a strict JSON string may not hold unescaped
ControlChars == {"\n", "\t"}

\* s holds lit at position i
LitAt(s, i, lit) ==
  /\ i + Len(lit) - 1 <= Len(s)
  /\ SubSeq(s, i, i + Len(lit) - 1) = lit

\* json.decoder.WHITESPACE.match(s, i).end(): the first position from i on
\* that holds no whitespace (Len(s) + 1 at the end of s)
skip_ws(s, i) ==
  Min({k \in i..(Len(s) + 1) : k > Len(s) \/ s[k] \notin Whitespace})

\* json.decoder.py_scanstring: i is the position after the opening quote.
\* STRINGCHUNK takes the characters up to the next quote, backslash or
\* control character; the quote ends the string, a backslash starts an
\* escape, a control character is an error, and so is the end of s.
RECURSIVE scanstring(_, _, _)
scanstring(s, i, acc) ==
  LET stops == {k \in i..Len(s) : s[k] \in {"\"", "\\"} \cup ControlChars} IN
  IF stops = {} THEN Fail
  ELSE
    LET k == Min(stops)
        chunk == acc \o SubSeq(s, i, k - 1)
    IN
    IF s[k] = "\"" THEN Ok(PyStr(chunk), k + 1)
    ELSE IF s[k] \in ControlChars THEN Fail
    ELSE IF k + 1 > Len(s) THEN Fail
    ELSE IF s[k + 1] \in {"\"", "\\", "/"}
         THEN scanstring(s, k + 2, Append(chunk, s[k + 1]))
    ELSE IF s[k + 1] = "n" THEN scanstring(s, k + 2, Append(chunk, "\n"))
    ELSE IF s[k + 1] = "t" THEN scanstring(s, k + 2, Append(chunk, "\t"))
    ELSE Fail

\* dict[key] = value: a repeated key keeps its place and takes the new value.
dict_set(kvs, key, value) ==
  IF \E n \in 1..Len(kvs) : kvs[n][1] = key
  THEN [n \in 1..Len(kvs) |->
          IF kvs[n][1] = key THEN <<key, value>> ELSE kvs[n]]
  ELSE Append(kvs, <<key, value>>)

RECURSIVE scan_once(_, _)
RECURSIVE JSONObject(_, _)
RECURSIVE object_members(_, _, _)
RECURSIVE JSONArray(_, _)
RECURSIVE array_elements(_, _, _)

\* json.scanner.py_make_scanner._scan_once
scan_once(s, i) ==
  IF i > Len(s) THEN Fail
  ELSE IF s[i] = "\"" THEN scanstring(s, i + 1, <<>>)
  ELSE IF s[i] = "{" THEN JSONObject(s, i + 1)
  ELSE IF s[i] = "[" THEN JSONArray(s, i + 1)
  ELSE IF LitAt(s, i, <<"n", "u", "l", "l">>) THEN Ok(None, i + 4)
  ELSE IF LitAt(s, i, <<"t", "r", "u", "e">>) THEN Ok(PyBool(TRUE), i + 4)
  ELSE IF LitAt(s, i, <<"f", "a", "l", "s", "e">>) THEN Ok(PyBool(FALSE), i + 5)
  ELSE Fail

\* json.decoder.JSONObject: i is the position after "{".
JSONObject(s, i) ==
  LET j == skip_ws(s, i) IN
  IF j <= Len(s) /\ s[j] = "}" THEN Ok(PyDict(<<>>), j + 1)
  ELSE object_members(s, j, <<>>)

\* one `"key" : value` member at j, then "," and the next member, or "}"
object_members(s, j, acc) ==
  IF j > Len(s) \/ s[j] # "\"" THEN Fail
  ELSE
    LET k == scanstring(s, j + 1, <<>>) IN
    IF ~k.ok THEN Fail
    ELSE
      LET c == skip_ws(s, k.end) IN
      IF c > Len(s) \/ s[c] # ":" THEN Fail
      ELSE
        LET x == scan_once(s, skip_ws(s, c + 1)) IN
        IF ~x.ok THEN Fail
        ELSE
          LET e == skip_ws(s, x.end)
              acc2 == dict_set(acc, k.val.v, x.val)
          IN
          IF e > Len(s) THEN Fail
          ELSE IF s[e] = "}" THEN Ok(PyDict(acc2), e + 1)
          ELSE IF s[e] = "," THEN object_members(s, skip_ws(s, e + 1), acc2)
          ELSE Fail

\* json.decoder.JSONArray: i is the position after "[".
JSONArray(s, i) ==
  LET j == skip_ws(s, i) IN
  IF j <= Len(s) /\ s[j] = "]" THEN Ok(PyList(<<>>), j + 1)
  ELSE array_elements(s, j, <<>>)

\* one value at j, then "," and the next value, or "]"
array_elements(s, j, acc) ==
  LET x == scan_once(s, j) IN
  IF ~x.ok THEN Fail
  ELSE
    LET e == skip_ws(s, x.end)
        acc2 == Append(acc, x.val)
    IN
    IF e > Len(s) THEN Fail
    ELSE IF s[e] = "]" THEN Ok(PyList(acc2), e + 1)
    ELSE IF s[e] = "," THEN array_elements(s, skip_ws(s, e + 1), acc2)
    ELSE Fail

\* json.loads(s): one value, whitespace allowed around it, nothing after it.
\* ok = FALSE stands for the JSONDecodeError it raises.
json_loads(s) ==
  LET x == scan_once(s, skip_ws(s, 1)) IN
  IF ~x.ok THEN Fail
  ELSE IF skip_ws(s, x.end) # Len(s) + 1 THEN Fail
  ELSE x

(***************************************************************************)
(* extract_json_from_text (lines 37-45).                                   *)
(***************************************************************************)
\* The character U+0060 (backtick), which a TLA+ string cannot hold.
BT == "U+0060"

FENCE_JSON == <<BT, BT, BT, "j", "s", "o", "n">>
FENCE == <<BT, BT, BT>>

\* line 41 with the two replacements in the other order
cleaned_fence_first(text) ==
  strip(replace(replace(text, FENCE, <<>>), FENCE_JSON, <<>>))

\* line 41: text.replace("```json", "").replace("```", "").strip()
cleaned(text) == strip(replace(replace(text, FENCE_JSON, <<>>), FENCE, <<>>))

\* lines 39-45 returning the raw text, as the log line of line 44 says,
\* when json.loads raises
extract_raw_text(text) ==
  LET x == json_loads(cleaned(text)) IN
  IF x.ok THEN x.val ELSE PyStr(text)

\* lines 39-45: the parsed value, or None when json.loads raises
extract_json_from_text(text) ==
  LET x == json_loads(cleaned(text)) IN
  IF x.ok THEN x.val ELSE None

(***************************************************************************)
(* The text of the program's string constants.                             *)
(***************************************************************************)
\* line 56: "image/"
IMAGE_PREFIX == <<"i", "m", "a", "g", "e", "/">>

\* the keys of the report (lines 66-75 and 101-110)
FOOD_NAME == <<"f", "o", "o", "d", "_", "n", "a", "m", "e">>
CALORIES == <<"c", "a", "l", "o", "r", "i", "e", "s">>
PROTEIN == <<"p", "r", "o", "t", "e", "i", "n">>
CARBS == <<"c", "a", "r", "b", "s">>
FATS == <<"f", "a", "t", "s">>
FIBER == <<"f", "i", "b", "e", "r">>
PREGNANCY_SAFE == <<"p", "r", "e", "g", "n", "a", "n", "c", "y", "_", "s", "a", "f", "e">>
PERIOD_FRIENDLY == <<"p", "e", "r", "i", "o", "d", "_", "f", "r", "i", "e", "n", "d", "l", "y">>
RECOMMENDATIONS == <<"r", "e", "c", "o", "m", "m", "e", "n", "d", "a", "t", "i", "o", "n", "s">>
SUGGESTED_FOODS == <<"s", "u", "g", "g", "e", "s", "t", "e", "d", "_", "f", "o", "o", "d", "s">>

UNKNOWN == <<"U", "n", "k", "n", "o", "w", "n">>
N_A == <<"N", "/", "A">>
COULD_NOT_ANALYZE ==
  <<"C", "o", "u", "l", "d", " ", "n", "o", "t", " ", "a", "n", "a", "l", "y", "z", "e", " ", "t", "h", "e", " ",
     "f", "o", "o", "d", " ", "i", "m", "a", "g", "e", " ",
     "p", "r", "o", "p", "e", "r", "l", "y", ".">>

\* lines 100-111: the report substituted for a falsy parsed_data
DEFAULT_REPORT ==
  PyDict(<< <<FOOD_NAME, PyStr(UNKNOWN)>>,
            <<CALORIES, PyStr(N_A)>>,
            <<PROTEIN, PyStr(N_A)>>,
            <<CARBS, PyStr(N_A)>>,
            <<FATS, PyStr(N_A)>>,
            <<FIBER, PyStr(N_A)>>,
            <<PREGNANCY_SAFE, PyBool(FALSE)>>,
            <<PERIOD_FRIENDLY, PyBool(FALSE)>>,
            <<RECOMMENDATIONS, PyStr(COULD_NOT_ANALYZE)>>,
            <<SUGGESTED_FOODS, PyList(<<>>)>> >>)

(***************************************************************************)
(* What the external model may write: the JSON text of a report in the     *)
(* format the prompt asks for (lines 64-76), bare or inside a ```json      *)
(* fence.  No string of the model's reports holds a quote, a backslash or  *)
(* a control character, so none needs escaping.                            *)
(***************************************************************************)
RECURSIVE dumps(_)
RECURSIVE dumps_items(_, _)
RECURSIVE dumps_members(_, _)

\* the elements n.. of a list, separated by ", "
dumps_items(xs, n) ==
  IF n > Len(xs) THEN <<>>
  ELSE dumps(xs[n]) \o (IF n < Len(xs) THEN <<",", " ">> ELSE <<>>)
       \o dumps_items(xs, n + 1)

\* the members n.. of an object, as "key": value, separated by ", "
dumps_members(kvs, n) ==
  IF n > Len(kvs) THEN <<>>
  ELSE <<"\"">> \o kvs[n][1] \o <<"\"", ":", " ">> \o dumps(kvs[n][2])
       \o (IF n < Len(kvs) THEN <<",", " ">> ELSE <<>>)
       \o dumps_members(kvs, n + 1)

dumps(x) ==
  CASE x.t = "None" -> <<"n", "u", "l", "l">>
    [] x.t = "bool" -> IF x.v THEN <<"t", "r", "u", "e">>
                       ELSE <<"f", "a", "l", "s", "e">>
    [] x.t = "str" -> <<"\"">> \o x.v \o <<"\"">>
    [] x.t = "list" -> <<"[">> \o dumps_items(x.v, 1) \o <<"]">>
    [] x.t = "dict" -> <<"{">> \o dumps_members(x.v, 1) \o <<"}">>

\* n copies of the character c
Pad(c, n) == [k \in 1..n |-> c]

\* text inside a ```json ... ``` fence, with a spaces outside the fence
\* and b newlines inside it
wrap(text, a, b) ==
  Pad(" ", a) \o FENCE_JSON \o Pad("\n", b) \o text
  \o Pad("\n", b) \o FENCE \o Pad(" ", a)

PEAR == <<"p", "e", "a", "r">>
FIG == <<"f", "i", "g">>

\* values of food_name: plain, empty, and with backticks in them
FoodNames == {PEAR, <<>>, <<BT, BT>>, FENCE, <<"a">> \o FENCE_JSON}
\* values of suggested_foods
FoodLists == {<<>>, <<PyStr(FIG)>>, <<PyStr(FIG), PyStr(FENCE)>>}

\* a report with every field of the schema
APPLE_REPORT ==
  PyDict(<< <<FOOD_NAME, PyStr(<<"A", "p", "p", "l", "e">>)>>,
            <<CALORIES, PyStr(<<"9", "5", " ", "k", "c", "a", "l">>)>>,
            <<PROTEIN, PyStr(<<"0", ".", "5", "g">>)>>,
            <<CARBS, PyStr(<<"2", "5", "g">>)>>,
            <<FATS, PyStr(<<"0", ".", "3", "g">>)>>,
            <<FIBER, PyStr(<<"4", "g">>)>>,
            <<PREGNANCY_SAFE, PyBool(TRUE)>>,
            <<PERIOD_FRIENDLY, PyBool(TRUE)>>,
            <<RECOMMENDATIONS, PyStr(<<"G", "o", "o", "d", " ", "s", "n", "a", "c", "k", ".">>)>>,
            <<SUGGESTED_FOODS, PyList(<<PyStr(<<"b", "a", "n", "a", "n", "a">>), PyStr(PEAR)>>)>> >>)

\* Reports the external model may return: a string field, a boolean field
\* and the list field of the schema, and objects with fewer members.
Reports ==
  {PyDict(<<>>), APPLE_REPORT}
  \cup {PyDict(<< <<FOOD_NAME, PyStr(n)>> >>) : n \in FoodNames}
  \cup {PyDict(<< <<FOOD_NAME, PyStr(n)>>,
                  <<PREGNANCY_SAFE, PyBool(b)>>,
                  <<SUGGESTED_FOODS, PyList(l)>> >>) :
          n \in FoodNames, b \in BOOLEAN, l \in FoodLists}

PEAR_REPORT ==
  PyDict(<< <<FOOD_NAME, PyStr(PEAR)>>,
            <<PREGNANCY_SAFE, PyBool(TRUE)>>,
            <<SUGGESTED_FOODS, PyList(<<PyStr(FIG)>>)>> >>)

\* a reply that is no JSON
PROSE == <<"I", " ", "c", "a", "n", "n", "o", "t", " ", "a", "n", "a", "l", "y", "z", "e", " ", "t", "h", "i", "s", " ", "i", "m", "a", "g", "e">>

\* an exception with message msg; str(e) is msg
Raise(msg) == [t |-> "raise", v |-> msg]

\* a call of the model client that returned
Returned(op) == [t |-> "returned", v |-> op]

\* What response.text may be (line 91): the access raises, or it is None,
\* empty, whitespace only, prose, or the JSON text of a value.
ResponseTexts ==
  { Raise("response.text: no valid Part"),
    None,
    PyStr(<<>>),
    PyStr(<<" ", "\n">>),
    PyStr(PROSE),
    PyStr(<<"{", "}">>),
    PyStr(dumps(PyDict(<< <<FOOD_NAME, PyStr(PEAR)>> >>))),
    PyStr(dumps(PEAR_REPORT) \o <<"\n">>),
    PyStr(wrap(dumps(PEAR_REPORT), 0, 1)) }

\* What file.content_type may be: missing, or a media type.
ContentTypes ==
  { None,
    PyStr(<<>>),
    PyStr(<<"i", "m", "a", "g", "e">>),
    PyStr(<<"i", "m", "a", "g", "e", "/", "p", "n", "g">>),
    PyStr(<<"a", "p", "p", "l", "i", "c", "a", "t", "i", "o", "n", "/", "p", "d", "f">>) }

\* What os.getenv("GEMINI_API_KEY") may be at startup (line 26).
EnvValues == {None, PyStr(<<>>), PyStr(<<"k", "e", "y">>)}

(***************************************************************************)
(* State.                                                                  *)
(***************************************************************************)
Requests == 1..NumRequests

VARIABLES
  GEMINI_API_KEY,  \* line 26: the environment's value at startup
  gemini_model,    \* lines 28-34: the process-wide client, or None
  pc,              \* per request: the line the handler is at
  file,            \* per request: the upload (content_type, data)
  image_data,      \* per request: the local of line 60
  response,        \* per request: what the model client returned and did
  result_text,     \* per request: the local of line 91
  parsed_data,     \* per request: the local of lines 96-111
  e,               \* per request: the exception caught at line 119
  outcome,         \* per request: what the handler returned or raised
  reads,           \* per request: number of file.read() calls begun
  calls,           \* per request: number of generate_content calls begun
  sent,            \* per request: the contents passed to generate_content
  responses,       \* per request: number of times the handler has ended
  report,          \* normalizer run: the report the model wrote
  pad,             \* normalizer run: whitespace around and inside the fence
  plain,           \* normalizer run: extract of the bare text
  wrapped          \* normalizer run: extract of the fenced text

reqvars == <<pc, file, image_data, response, result_text, parsed_data, e,
             outcome, reads, calls, sent, responses>>
cfgvars == <<GEMINI_API_KEY, gemini_model>>
extvars == <<report, pad, plain, wrapped>>
vars == <<GEMINI_API_KEY, gemini_model, pc, file, image_data, response,
          result_text, parsed_data, e, outcome, reads, calls, sent, responses,
          report, pad, plain, wrapped>>

\* a local not yet assigned, a step not yet taken
Unset == [t |-> "unset", v |-> <<>>]

\* the bytes of request r's upload: every request uploads its own
Payload(r) == [t |-> "bytes", v |-> <<r>>]

\* genai.GenerativeModel("gemini-2.0-flash") (line 34): a truthy object
GenerativeModel == [t |-> "GenerativeModel", v |-> <<"gemini-2.0-flash">>]

\* lines 33-34 without the guard of line 28: the client is built whatever
\* the key is
ConfigureAlways(key) == GenerativeModel

\* lines 28-34
Configure(key) == IF ~Truthy(key) THEN None ELSE GenerativeModel

\* raise HTTPException(status_code, detail); detail is the concatenation
\* of the pieces
HTTPException(status_code, detail) ==
  [kind |-> "HTTPException", status_code |-> status_code, detail |-> detail]

\* return body: FastAPI answers 200 with the body
Return(body) == [kind |-> "return", status_code |-> 200, body |-> body]

\* an exception that leaves the handler uncaught
Unhandled(exc) == [kind |-> "unhandled", exception |-> exc]

RequestsInit ==
  /\ pc = [r \in Requests |-> "idle"]
  /\ file = [r \in Requests |-> Unset]
  /\ image_data = [r \in Requests |-> Unset]
  /\ response = [r \in Requests |-> <<>>]
  /\ result_text = [r \in Requests |-> Unset]
  /\ parsed_data = [r \in Requests |-> Unset]
  /\ e = [r \in Requests |-> Unset]
  /\ outcome = [r \in Requests |-> Unset]
  /\ reads = [r \in Requests |-> 0]
  /\ calls = [r \in Requests |-> 0]
  /\ sent = [r \in Requests |-> Unset]
  /\ responses = [r \in Requests |-> 0]

\* The state after the module is imported (lines 25-34), no request yet.
Init ==
  /\ GEMINI_API_KEY \in EnvValues
  /\ gemini_model = Configure(GEMINI_API_KEY)
  /\ RequestsInit
  /\ report = Unset
  /\ pad = <<0, 0>>
  /\ plain = Unset
  /\ wrapped = Unset

(***************************************************************************)
(* analyse_food (lines 48-121), one action per step of the handler.        *)
(***************************************************************************)
\* The handler ends for request r with outcome o.
End(r, o) ==
  /\ outcome' = [outcome EXCEPT ![r] = o]
  /\ responses' = [responses EXCEPT ![r] = @ + 1]
  /\ pc' = [pc EXCEPT ![r] = "done"]

\* An exception raised inside the try block (lines 59-117) for request r.
Raised(r, exc) ==
  /\ e' = [e EXCEPT ![r] = exc]
  /\ pc' = [pc EXCEPT ![r] = "line119"]

\* lines 48-49: a request with an upload arrives
Receive(r) ==
  /\ pc[r] = "idle"
  /\ \E ct \in ContentTypes :
       file' = [file EXCEPT ![r] = [content_type |-> ct, data |-> Payload(r)]]
  /\ pc' = [pc EXCEPT ![r] = "line53"]
  /\ UNCHANGED <<cfgvars, extvars, image_data, response, result_text,
                 parsed_data, e, outcome, reads, calls, sent, responses>>

\* lines 53-54
CheckModel(r) ==
  /\ pc[r] = "line53"
  /\ IF ~Truthy(gemini_model)
     THEN End(r, HTTPException(503, <<"Gemini AI not configured.">>))
     ELSE /\ pc' = [pc EXCEPT ![r] = "line56"]
          /\ UNCHANGED <<outcome, responses>>
  /\ UNCHANGED <<cfgvars, extvars, file, image_data, response, result_text,
                 parsed_data, e, reads, calls, sent>>

\* line 56 with the prefix "image", without the slash
InvalidFileTypeNoSlash(content_type) ==
  ~startswith(content_type.v, SubSeq(IMAGE_PREFIX, 1, 5))

\* line 56: not file.content_type.startswith("image/"), for a str
\* content_type
InvalidFileType(content_type) == ~startswith(content_type.v, IMAGE_PREFIX)

\* lines 56-57: None has no startswith, so the attribute lookup raises
\* AttributeError outside the try block
CheckType(r) ==
  /\ pc[r] = "line56"
  /\ IF file[r].content_type = None
     THEN End(r, Unhandled(Raise(
            "'NoneType' object has no attribute 'startswith'")))
     ELSE IF InvalidFileType(file[r].content_type)
     THEN End(r, HTTPException(400, <<"Invalid file type. Upload an image.">>))
     ELSE /\ pc' = [pc EXCEPT ![r] = "line60"]
          /\ UNCHANGED <<outcome, responses>>
  /\ UNCHANGED <<cfgvars, extvars, file, image_data, response, result_text,
                 parsed_data, e, reads, calls, sent>>

\* line 60: await file.read() returns the bytes or raises
Read(r) ==
  /\ pc[r] = "line60"
  /\ reads' = [reads EXCEPT ![r] = @ + 1]
  /\ \/ /\ image_data' = [image_data EXCEPT ![r] = file[r].data]
        /\ pc' = [pc EXCEPT ![r] = "line81"]
        /\ UNCHANGED e
     \/ /\ Raised(r, Raise("read of closed file"))
        /\ UNCHANGED image_data
  /\ UNCHANGED <<cfgvars, extvars, file, response, result_text, parsed_data,
                 outcome, calls, sent, responses>>

\* lines 62-88: gemini_model.generate_content(...) returns a response or
\* raises
GenerateContent(r) ==
  /\ pc[r] = "line81"
  /\ calls' = [calls EXCEPT ![r] = @ + 1]
  /\ sent' = [sent EXCEPT ![r] =
                [mime_type |-> file[r].content_type, data |-> image_data[r]]]
  /\ \/ /\ response' = [response EXCEPT ![r] = <<Returned("generate_content")>>]
        /\ pc' = [pc EXCEPT ![r] = "line90"]
        /\ UNCHANGED e
     \/ /\ response' = [response EXCEPT ![r] = <<Raise("network unreachable")>>]
        /\ Raised(r, Raise("network unreachable"))
  /\ UNCHANGED <<cfgvars, extvars, file, image_data, result_text, parsed_data,
                 outcome, reads, responses>>

\* line 90: response.resolve() returns or raises
Resolve(r) ==
  /\ pc[r] = "line90"
  /\ \/ /\ response' = [response EXCEPT ![r] = Append(@, Returned("resolve"))]
        /\ pc' = [pc EXCEPT ![r] = "line91"]
        /\ UNCHANGED e
     \/ /\ response' = [response EXCEPT ![r] = Append(@, Raise("stream broken"))]
        /\ Raised(r, Raise("stream broken"))
  /\ UNCHANGED <<cfgvars, extvars, file, image_data, result_text, parsed_data,
                 outcome, reads, calls, sent, responses>>

\* line 91 without the strip
ResultTextNoStrip(text) == IF Truthy(text) THEN text ELSE None

\* line 91: response.text.strip() if response.text else None
ResultText(text) == IF Truthy(text) THEN PyStr(strip(text.v)) ELSE None

\* lines 91-94
ReadText(r) ==
  /\ pc[r] = "line91"
  /\ \E text \in ResponseTexts :
       /\ response' = [response EXCEPT ![r] = Append(@, text)]
       /\ IF text.t = "raise"
          THEN /\ Raised(r, text)
               /\ UNCHANGED result_text
          ELSE /\ result_text' = [result_text EXCEPT ![r] = ResultText(text)]
               /\ IF ~Truthy(ResultText(text))
                  THEN Raised(r, Raise("Empty analysis response from Gemini API"))
                  ELSE /\ pc' = [pc EXCEPT ![r] = "line96"]
                       /\ UNCHANGED e
  /\ UNCHANGED <<cfgvars, extvars, file, image_data, parsed_data, outcome,
                 reads, calls, sent, responses>>

\* line 96 with parsed_data a module-level global shared by the requests
ExtractShared(r) ==
  /\ pc[r] = "line96"
  /\ parsed_data' = [q \in Requests |->
                       extract_json_from_text(result_text[r].v)]
  /\ pc' = [pc EXCEPT ![r] = "line98"]
  /\ UNCHANGED <<cfgvars, extvars, file, image_data, response, result_text, e,
                 outcome, reads, calls, sent, responses>>

\* line 96
Extract(r) ==
  /\ pc[r] = "line96"
  /\ parsed_data' = [parsed_data EXCEPT ![r] =
                       extract_json_from_text(result_text[r].v)]
  /\ pc' = [pc EXCEPT ![r] = "line98"]
  /\ UNCHANGED <<cfgvars, extvars, file, image_data, response, result_text, e,
                 outcome, reads, calls, sent, responses>>

\* lines 98-111: the report of the response
ReportOf(data) == IF ~Truthy(data) THEN DEFAULT_REPORT ELSE data

\* lines 113-117
Envelope(data) == [success |-> TRUE, source |-> "Gemini", report |-> data]

\* lines 98-117
Respond(r) ==
  /\ pc[r] = "line98"
  /\ parsed_data' = [parsed_data EXCEPT ![r] = ReportOf(@)]
  /\ End(r, Return(Envelope(ReportOf(parsed_data[r]))))
  /\ UNCHANGED <<cfgvars, extvars, file, image_data, response, result_text, e,
                 reads, calls, sent>>

\* line 121
AnalysisFailed(exc) ==
  HTTPException(500, <<"Food analysis failed: ", exc.v>>)

\* lines 119-121 with one retry of the model call after it failed
HandleExceptionRetry(r) ==
  /\ pc[r] = "line119"
  /\ IF calls[r] = 1
     THEN /\ pc' = [pc EXCEPT ![r] = "line81"]
          /\ UNCHANGED <<outcome, responses>>
     ELSE End(r, AnalysisFailed(e[r]))
  /\ UNCHANGED <<cfgvars, extvars, file, image_data, response, result_text,
                 parsed_data, e, reads, calls, sent>>

\* lines 119-121
HandleException(r) ==
  /\ pc[r] = "line119"
  /\ End(r, AnalysisFailed(e[r]))
  /\ UNCHANGED <<cfgvars, extvars, file, image_data, response, result_text,
                 parsed_data, e, reads, calls, sent>>

Next ==
  \E r \in Requests :
    \/ Receive(r)
    \/ CheckModel(r)
    \/ CheckType(r)
    \/ Read(r)
    \/ GenerateContent(r)
    \/ Resolve(r)
    \/ ReadText(r)
    \/ Extract(r)
    \/ Respond(r)
    \/ HandleException(r)

Spec == Init /\ [][Next]_vars

(***************************************************************************)
(* The normalizer on its own: a report the model wrote, extracted from     *)
(* its bare text and from its fenced text.                                 *)
(***************************************************************************)
InitExtract ==
  /\ GEMINI_API_KEY = PyStr(<<"k", "e", "y">>)
  /\ gemini_model = Configure(GEMINI_API_KEY)
  /\ RequestsInit
  /\ report \in Reports
  /\ pad \in (0..MaxPad) \X (0..MaxPad)
  /\ plain = Unset
  /\ wrapped = Unset

ExtractPlain ==
  /\ plain = Unset
  /\ plain' = extract_json_from_text(dumps(report))
  /\ UNCHANGED <<cfgvars, reqvars, report, pad, wrapped>>

ExtractWrapped ==
  /\ wrapped = Unset
  /\ wrapped' = extract_json_from_text(wrap(dumps(report), pad[1], pad[2]))
  /\ UNCHANGED <<cfgvars, reqvars, report, pad, plain>>

NextExtract == ExtractPlain \/ ExtractWrapped

SpecExtract == InitExtract /\ [][NextExtract]_vars

(***************************************************************************)
(* Properties.                                                             *)
(***************************************************************************)
Configured == Truthy(gemini_model)
Arrived(r) == pc[r] # "idle"
Done(r) == pc[r] = "done"

\* the upload of r has a media type and it begins with "image/"
BeginsWithImage(r) ==
  /\ file[r].content_type.t = "str"
  /\ Len(file[r].content_type.v) >= 6
  /\ \A k \in 1..6 : file[r].content_type.v[k] = IMAGE_PREFIX[k]

\* the upload of r has a media type and it does not begin with "image/"
NonImage(r) == file[r].content_type.t = "str" /\ ~BeginsWithImage(r)

\* the upload of r has no media type
MissingType(r) == file[r].content_type.t = "None"

InvalidFileTypeAnswer ==
  [kind |-> "HTTPException", status_code |-> 400,
   detail |-> <<"Invalid file type. Upload an image.">>]

NotConfiguredAnswer ==
  [kind |-> "HTTPException", status_code |-> 503,
   detail |-> <<"Gemini AI not configured.">>]

\* C1: with the client configured, an upload whose media type does not
\* begin with "image/" is answered 400 "Invalid file type. Upload an
\* image.", and at no point of the request has the file been read or the
\* model been called.
C1_NonImageRejected ==
  \A r \in Requests :
    (Configured /\ Arrived(r) /\ NonImage(r)) =>
      /\ reads[r] = 0
      /\ calls[r] = 0
      /\ Done(r) => outcome[r] = InvalidFileTypeAnswer

C1_Witness ==
  \E r \in Requests :
    /\ Done(r) /\ Configured /\ NonImage(r)
    /\ Len(file[r].content_type.v) >= 5
    /\ outcome[r].status_code = 400

\* C2: when GEMINI_API_KEY is absent at startup, every request is answered
\* 503 "Gemini AI not configured." whatever the media type of its upload
\* (image, non-image or missing): the handler never gets past the
\* configuration check, the file is never read and the model never called.
C2_UnconfiguredUnavailable ==
  \A r \in Requests :
    (~Truthy(GEMINI_API_KEY) /\ Arrived(r)) =>
      /\ pc[r] \in {"line53", "done"}
      /\ reads[r] = 0
      /\ calls[r] = 0
      /\ Done(r) => outcome[r] = NotConfiguredAnswer

C2_Witness ==
  /\ GEMINI_API_KEY = None
  /\ \E r, q \in Requests :
       /\ Done(r) /\ BeginsWithImage(r) /\ outcome[r].status_code = 503
       /\ Done(q) /\ ~BeginsWithImage(q) /\ outcome[q].status_code = 503

\* the read of r's file raised
ReadRaised(r) == reads[r] = 1 /\ image_data[r] = Unset /\ pc[r] # "line60"

\* a response text that is absent, empty or whitespace only
Blank(text) ==
  \/ text.t = "None"
  \/ text.t = "str" /\ \A k \in 1..Len(text.v) : text.v[k] \in Whitespace

\* the read or the model invocation of r failed
Failed(r) ==
  \/ ReadRaised(r)
  \/ Len(response[r]) >= 1 /\ response[r][Len(response[r])].t = "raise"
  \/ Len(response[r]) = 3 /\ Blank(response[r][3])

\* the message of the failure of r
FailureMessage(r) ==
  IF ReadRaised(r) THEN "read of closed file"
  ELSE IF response[r][Len(response[r])].t = "raise"
       THEN response[r][Len(response[r])].v
       ELSE "Empty analysis response from Gemini API"

\* C3: for a configured client and an image upload, a failure of the file
\* read or of the model invocation (read, generate_content, resolve or the
\* text access raises, or the text is absent, empty or whitespace only)
\* ends the request with 500 "Food analysis failed: " followed by the
\* underlying message, and with nothing else.
C3_FailureIs500 ==
  \A r \in Requests :
    (Done(r) /\ Configured /\ BeginsWithImage(r) /\ Failed(r)) =>
      outcome[r] = [kind |-> "HTTPException", status_code |-> 500,
                    detail |-> <<"Food analysis failed: ", FailureMessage(r)>>]

C3_Witness ==
  \E r \in Requests :
    /\ Done(r) /\ Configured /\ BeginsWithImage(r)
    /\ Len(response[r]) = 3
    /\ response[r][3] = PyStr(<<" ", "\n">>)
    /\ outcome[r].status_code = 500

\* dict[key] of a parsed object
Get(d, key) == d.v[CHOOSE n \in 1..Len(d.v) : d.v[n][1] = key][2]

\* the report has exactly the ten fields of the canonical default
CanonicalDefault(d) ==
  /\ d.t = "dict"
  /\ Len(d.v) = 10
  /\ Get(d, FOOD_NAME) = PyStr(UNKNOWN)
  /\ \A key \in {CALORIES, PROTEIN, CARBS, FATS, FIBER} :
       Get(d, key) = PyStr(N_A)
  /\ Get(d, PREGNANCY_SAFE) = PyBool(FALSE)
  /\ Get(d, PERIOD_FRIENDLY) = PyBool(FALSE)
  /\ Get(d, RECOMMENDATIONS) = PyStr(COULD_NOT_ANALYZE)
  /\ Get(d, SUGGESTED_FOODS) = PyList(<<>>)

\* the model's text for r is non-empty and, fences stripped, is no JSON
Unparseable(r) ==
  /\ result_text[r].t = "str"
  /\ result_text[r].v # <<>>
  /\ ~json_loads(cleaned(result_text[r].v)).ok

\* C4: for a configured client and an image upload, when the model's
\* non-empty text does not parse as JSON after fence stripping, the
\* normalizer returns None and the request is answered 200 with
\* success true, source "Gemini" and the canonical default report.
C4_UnparseableIsDefault ==
  \A r \in Requests :
    (Configured /\ Arrived(r) /\ BeginsWithImage(r) /\ Unparseable(r)) =>
      /\ pc[r] = "line98" => parsed_data[r] = None
      /\ Done(r) =>
           /\ outcome[r].kind = "return"
           /\ outcome[r].status_code = 200
           /\ outcome[r].body.success = TRUE
           /\ outcome[r].body.source = "Gemini"
           /\ CanonicalDefault(outcome[r].body.report)

C4_Witness ==
  \E r \in Requests :
    /\ Done(r) /\ Configured /\ BeginsWithImage(r) /\ Unparseable(r)
    /\ result_text[r] = PyStr(PROSE)
    /\ outcome[r].status_code = 200

\* the model's text for r parses, fences stripped, as a JSON object
ParsesAsObject(r) ==
  /\ result_text[r].t = "str"
  /\ json_loads(cleaned(result_text[r].v)).ok
  /\ json_loads(cleaned(result_text[r].v)).val.t = "dict"

\* C5: for a configured client and an image upload, whenever the model's
\* text parses as a JSON object, an object with no members included, the
\* report of the 200 response is that parsed object; the default report
\* never takes the place of a parsed object.
C5_ParsedObjectVerbatim ==
  \A r \in Requests :
    (Done(r) /\ Configured /\ BeginsWithImage(r) /\ ParsesAsObject(r)) =>
      /\ outcome[r].kind = "return"
      /\ outcome[r].body.report = json_loads(cleaned(result_text[r].v)).val

\* C6: with the client configured, an upload with no media type is
\* answered 400 "Invalid file type. Upload an image.", and every request
\* ends in a typed outcome (a 200 return or an HTTPException 400, 503 or
\* 500): no exception leaves the handler uncaught.
C6_MissingTypeRejected ==
  \A r \in Requests :
    Done(r) =>
      /\ outcome[r].kind \in {"return", "HTTPException"}
      /\ (Configured /\ MissingType(r)) => outcome[r] = InvalidFileTypeAnswer

\* C7: for the JSON text X of any report, extract of X wrapped in a
\* leading ```json and a trailing ```, with optional whitespace around
\* them, is the value extract gives for X bare.
C7_FenceRoundTrip ==
  (plain # Unset /\ wrapped # Unset) => wrapped = plain

C7_Witness ==
  /\ plain # Unset
  /\ wrapped # Unset
  /\ pad = <<1, 1>>
  /\ plain = APPLE_REPORT

\* C8: for the JSON text of any report, bare or fenced, extract returns
\* the report with every field value exactly as written, strings that
\* hold ``` or ```json included.
C8_FieldsPreserved ==
  /\ plain # Unset => plain = report
  /\ wrapped # Unset => wrapped = report

\* C9: a request is one linear attempt: the model is called at most once
\* (once when the client is configured, the upload is an image and the
\* read succeeded; never on the 503 and 400 paths), the file is read at
\* most once, and the handler ends exactly once.
C9_SingleAttempt ==
  \A r \in Requests :
    /\ calls[r] <= 1
    /\ reads[r] <= 1
    /\ responses[r] <= 1
    /\ Done(r) <=> responses[r] = 1
    /\ (Done(r) /\ outcome[r].kind = "HTTPException"
          /\ outcome[r].status_code \in {400, 503}) => calls[r] = 0
    /\ (Done(r) /\ Configured /\ BeginsWithImage(r) /\ image_data[r] # Unset)
         => calls[r] = 1
    /\ calls[r] = 1 =>
         (Configured /\ BeginsWithImage(r) /\ image_data[r] # Unset)

C9_Witness ==
  \E r \in Requests :
    /\ Done(r)
    /\ calls[r] = 1
    /\ Len(response[r]) = 1
    /\ response[r][1].t = "raise"
    /\ outcome[r].status_code = 500

\* What the handler answers to upload f when it runs alone, given whether
\* the read of f succeeded and what the model client did for it (resp).
Alone(model, f, read_ok, resp) ==
  IF ~Truthy(model) THEN NotConfiguredAnswer
  ELSE IF f.content_type.t = "None"
  THEN Unhandled(Raise("'NoneType' object has no attribute 'startswith'"))
  ELSE IF ~startswith(f.content_type.v, IMAGE_PREFIX)
  THEN InvalidFileTypeAnswer
  ELSE IF ~read_ok THEN AnalysisFailed(Raise("read of closed file"))
  ELSE IF resp[1].t = "raise" THEN AnalysisFailed(resp[1])
  ELSE IF resp[2].t = "raise" THEN AnalysisFailed(resp[2])
  ELSE IF resp[3].t = "raise" THEN AnalysisFailed(resp[3])
  ELSE IF Blank(resp[3])
  THEN AnalysisFailed(Raise("Empty analysis response from Gemini API"))
  ELSE Return(Envelope(ReportOf(extract_json_from_text(strip(resp[3].v)))))

\* every request sends its own upload to the model, and its answer is the
\* one it would have given alone
Isolated ==
  \A r \in Requests :
    /\ sent[r] # Unset =>
         sent[r] = [mime_type |-> file[r].content_type, data |-> Payload(r)]
    /\ Done(r) =>
         outcome[r] = Alone(gemini_model, file[r], ~ReadRaised(r), response[r])

\* C10: under any interleaving of the requests, no step changes the
\* process-wide gemini_model, and the answer of a request is a function of
\* the startup configuration, its own upload and the model's reply to its
\* own call: the answer it would have given alone.
C10_RequestsIsolated ==
  /\ [][gemini_model' = gemini_model]_vars
  /\ []Isolated

C10_Witness ==
  \E r, q \in Requests :
    /\ r # q
    /\ Done(r) /\ Done(q)
    /\ outcome[r].kind = "return" /\ outcome[q].kind = "return"
    /\ outcome[r].body.report = PEAR_REPORT
    /\ outcome[q].body.report = PyDict(<< <<FOOD_NAME, PyStr(PEAR)>> >>)
====
